---- MODULE Spec2Model ----
(***************************************************************************)
(* Model of InventoryOCP.py: login, the per-namespace resource queries,    *)
(* the correlation of workloads with pods, the folding of namespace-wide   *)
(* sibling resources into inventory[-1], and the CSV / JSON report.        *)
(*                                                                         *)
(* Python strings that the program inspects (startswith, in, join) are     *)
(* tuples of one-character strings.  A dict is a function whose DOMAIN is  *)
(* the dict's key set; a raw cluster record is a dict keyed by the JSON    *)
(* path the program reads ("spec.replicas").                               *)
(***************************************************************************)
EXTENDS Integers, Sequences, FiniteSets, TLC

(* ---------------------------- bounds ---------------------------------- *)
\* longest namespace listing the cluster returns
MaxNamespaces == 5
\* most records one resource listing returns
MaxItems == 2
\* most commands of one run that end with a non-zero return code
MaxFailures == 1

(* ---------------------------- strings --------------------------------- *)
s_payments == <<"p","a","y","m","e","n","t","s">>
s_apps == <<"a","p","p","s">>
s_default == <<"d","e","f","a","u","l","t">>
s_defaults == <<"d","e","f","a","u","l","t","s">>
s_kube_system == <<"k","u","b","e","-","s","y","s","t","e","m">>
s_openshift_monitoring == <<"o","p","e","n","s","h","i","f","t","-","m","o","n","i","t","o","r","i","n","g">>
s_hostpath_provisioner == <<"h","o","s","t","p","a","t","h","-","p","r","o","v","i","s","i","o","n","e","r">>
s_openshift_dash == <<"o","p","e","n","s","h","i","f","t","-">>
s_kube_dash == <<"k","u","b","e","-">>
s_builder == <<"b","u","i","l","d","e","r">>
s_deployer == <<"d","e","p","l","o","y","e","r">>
s_openshift == <<"o","p","e","n","s","h","i","f","t">>
s_api == <<"a","p","i">>
s_db == <<"d","b">>
s_web == <<"w","e","b">>
s_api_1 == <<"a","p","i","-","1">>
s_api_db_0 == <<"a","p","i","-","d","b","-","0">>
s_builder_token == <<"b","u","i","l","d","e","r","-","t","o","k","e","n">>
s_app_db_creds == <<"a","p","p","-","d","b","-","c","r","e","d","s">>
s_api_creds == <<"a","p","i","-","c","r","e","d","s">>
s_kube_root_ca == <<"k","u","b","e","-","r","o","o","t","-","c","a">>
s_app_config == <<"a","p","p","-","c","o","n","f","i","g">>
s_NA == <<"N","/","A">>
s_5m == <<"5","m">>
s_20Mi == <<"2","0","M","i">>
s_api_svc == <<"a","p","i","-","s","v","c">>
s_80 == <<"8","0">>
s_api_route == <<"a","p","i","-","r","t">>
s_api_host == <<"a","p","i",".","i","o">>
s_api_hpa == <<"a","p","i","-","h","p","a">>
s_compute == <<"c","o","m","p","u","t","e">>
s_pv_data == <<"p","v","-","d","a","t","a">>
s_data == <<"d","a","t","a">>
s_n1 == <<"n","1">>
s_img == <<"a","p","p",":","1">>
s_zone_a == <<"z","o","n","e","=","a">>
s_comma == <<",">>
s_empty == << >>
\* the value None where a string is expected
py_None == <<"None">>
s_braces == <<"{","}">>
s_rwo == <<"R","W","O">>
s_1Gi == <<"1","G","i">>
s_retain == <<"R","e","t","a","i","n">>
s_opaque == <<"O","p","a","q","u","e">>

\* str.startswith(prefix)
StartsWith(s, prefix) ==
    Len(prefix) <= Len(s) /\ SubSeq(s, 1, Len(prefix)) = prefix

\* str.startswith(tuple_of_prefixes)
StartsWithAny(s, prefixes) == \E p \in prefixes : StartsWith(s, p)

\* `sub in s` for two strings
Contains(sub, s) ==
    \E i \in 0..(Len(s) - Len(sub)) : SubSeq(s, i + 1, i + Len(sub)) = sub

\* sep.join(list_of_strings)
RECURSIVE Join(_, _)
Join(sep, list) ==
    IF Len(list) = 0 THEN s_empty
    ELSE IF Len(list) = 1 THEN list[1]
    ELSE list[1] \o sep \o Join(sep, Tail(list))

\* [x[key] for x in list]
Column(list, key) == [i \in 1..Len(list) |-> list[i][key]]

\* the orders in which iterating a Python set of strings can yield its members
SetOrders(S) ==
    {q \in [1..Cardinality(S) -> S] : \A i, j \in 1..Cardinality(S) : i # j => q[i] # q[j]}

Range(list) == {list[i] : i \in 1..Len(list)}

\* dict.get(key, dflt)
Get(d, key, dflt) == IF key \in DOMAIN d THEN d[key] ELSE dflt

\* d[key] for every key of keys succeeds (no KeyError)
HasAll(d, keys) == keys \subseteq DOMAIN d

(* ------------------------- run_command -------------------------------- *)
\* what a finished subprocess can be: return code 0 with its parsed stdout, or a
\* non-zero return code, because the transport failed or the session was rejected
Outcomes(listings) ==
    {[returncode |-> 0, err |-> "none", stdout |-> l] : l \in listings}
    \cup {[returncode |-> 1, err |-> e, stdout |-> << >>] : e \in {"transport", "auth"}}

None == [none |-> TRUE, stdout |-> << >>]

run_command(result) ==
    IF result.returncode # 0 THEN None ELSE [none |-> FALSE, stdout |-> result.stdout]

\* what a get_* function does: return a value, or raise (KeyError, IndexError)
Return(v) == [raised |-> FALSE, value |-> v]
Raise == [raised |-> TRUE, value |-> << >>]

AllHave(items, keys) == \A i \in 1..Len(items) : HasAll(items[i], keys)

(* ------------------------- get_* functions ---------------------------- *)
excluded_prefixes == {s_openshift_dash, s_kube_dash, s_default, s_hostpath_provisioner}

\* the list comprehension of get_non_openshift_namespaces
NonExcludedExactNames(names) ==
    SelectSeq(names, LAMBDA name : ~(\/ StartsWithAny(name, {s_openshift_dash, s_kube_dash})
                                  \/ name \in {s_default, s_hostpath_provisioner}))

NonExcluded(names) == SelectSeq(names, LAMBDA name : ~StartsWithAny(name, excluded_prefixes))

PodRecord(pod) ==
    [node_name |-> Get(pod, "spec.nodeName", s_NA),
     resources |-> Get(pod, "spec.containers[0].resources", s_braces),
     readiness_probe |-> Get(pod, "spec.containers[0].readinessProbe", s_braces),
     liveness_probe |-> Get(pod, "spec.containers[0].livenessProbe", s_braces),
     image |-> pod["spec.containers[0].image"],
     pod_name |-> pod["metadata.name"]]

get_pod_info(pods) ==
    IF pods.none THEN Return(<< >>)
    ELSE IF ~AllHave(pods.stdout, {"spec.containers[0].image", "metadata.name"}) THEN Raise
    ELSE Return([i \in 1..Len(pods.stdout) |-> PodRecord(pods.stdout[i])])

get_node_selector(namespace_info) ==
    IF namespace_info.none THEN s_NA
    ELSE Get(namespace_info.stdout, "metadata.annotations.openshift.io/node-selector", s_NA)

QuotaRecord(quota) == [name |-> quota["metadata.name"], limits |-> quota["spec.hard"]]

get_resource_quotas(quotas) ==
    IF quotas.none THEN Return(<< >>)
    ELSE IF ~AllHave(quotas.stdout, {"metadata.name", "spec.hard"}) THEN Raise
    ELSE Return([i \in 1..Len(quotas.stdout) |-> QuotaRecord(quotas.stdout[i])])

PvRecord(pv) ==
    [name |-> pv["metadata.name"],
     namespace |-> Get(pv, "spec.claimRef.namespace", py_None),
     capacity |-> pv["spec.capacity.storage"],
     access_modes |-> pv["spec.accessModes"],
     reclaim_policy |-> pv["spec.persistentVolumeReclaimPolicy"]]

get_persistent_volumes(pvs) ==
    IF pvs.none THEN Return(<< >>)
    ELSE IF ~AllHave(pvs.stdout, {"metadata.name", "spec.capacity.storage", "spec.accessModes",
                                  "spec.persistentVolumeReclaimPolicy"}) THEN Raise
    ELSE Return([i \in 1..Len(pvs.stdout) |-> PvRecord(pvs.stdout[i])])

\* the try block succeeds when name, spec and status are there; the except block
\* appends the defaults, after printing pvc['metadata']['name']
PvcRecord(pvc) ==
    IF HasAll(pvc, {"metadata.name", "spec", "status"})
    THEN [name |-> pvc["metadata.name"],
          volume_name |-> Get(pvc, "spec.volumeName", s_NA),
          access_modes |-> Get(pvc, "status.accessModes", s_NA),
          capacity |-> Get(pvc, "status.capacity.storage", s_NA)]
    ELSE [name |-> pvc["metadata.name"],
          volume_name |-> s_NA, access_modes |-> s_NA, capacity |-> s_NA]

get_persistent_volume_claims(pvcs) ==
    IF pvcs.none THEN Return(<< >>)
    ELSE IF ~AllHave(pvcs.stdout, {"metadata.name"}) THEN Raise
    ELSE Return([i \in 1..Len(pvcs.stdout) |-> PvcRecord(pvcs.stdout[i])])

SecretRecord(secret) == [name |-> secret["metadata.name"], type |-> secret["type"]]

SecretKept(secret) ==
    ~(\/ StartsWith(secret["metadata.name"], s_builder)
      \/ StartsWith(secret["metadata.name"], s_default)
      \/ StartsWith(secret["metadata.name"], s_deployer))

\* a record that is filtered out is never asked for its type
get_secrets(secrets) ==
    IF secrets.none THEN Return(<< >>)
    ELSE IF ~AllHave(secrets.stdout, {"metadata.name"}) THEN Raise
    ELSE IF ~AllHave(SelectSeq(secrets.stdout, SecretKept), {"type"}) THEN Raise
    ELSE LET kept == SelectSeq(secrets.stdout, SecretKept)
         IN Return([i \in 1..Len(kept) |-> SecretRecord(kept[i])])

ConfigmapRecord(configmap) == [name |-> configmap["metadata.name"]]

ConfigmapKept(configmap) ==
    ~(\/ StartsWith(configmap["metadata.name"], s_openshift)
      \/ StartsWith(configmap["metadata.name"], s_kube_dash))

get_configmaps(configmaps) ==
    IF configmaps.none THEN Return(<< >>)
    ELSE IF ~AllHave(configmaps.stdout, {"metadata.name"}) THEN Raise
    ELSE LET kept == SelectSeq(configmaps.stdout, ConfigmapKept)
         IN Return([i \in 1..Len(kept) |-> ConfigmapRecord(kept[i])])

\* one line of `kubectl top pod --no-headers`, split on whitespace; a line with
\* fewer than three parts raises IndexError, which the function catches
MetricsOf(lines) ==
    [name \in {lines[i][1] : i \in 1..Len(lines)} |->
        LET last == CHOOSE i \in 1..Len(lines) :
                       /\ lines[i][1] = name
                       /\ \A j \in 1..Len(lines) : lines[j][1] = name => j <= i
        IN [cpu |-> lines[last][2], memory |-> lines[last][3]]]

EmptyDict == [name \in {} |-> s_NA]

get_pod_metrics(metrics_output) ==
    IF metrics_output.none THEN Return(EmptyDict)
    ELSE IF \E i \in 1..Len(metrics_output.stdout) : Len(metrics_output.stdout[i]) < 3
         THEN Return(EmptyDict)
    ELSE Return(MetricsOf(metrics_output.stdout))

\* get_deployments_info sets no 'type'; the other two set theirs
WorkloadRecord(type, item) ==
    IF type = "Deployment"
    THEN [deployment_name |-> item["metadata.name"],
          replicas |-> item["spec.replicas"],
          labels |-> Get(item, "metadata.labels", s_braces)]
    ELSE [deployment_name |-> item["metadata.name"],
          replicas |-> item["spec.replicas"],
          labels |-> Get(item, "metadata.labels", s_braces),
          type |-> type]

get_workloads_info(type, listing) ==
    IF listing.none THEN Return(<< >>)
    ELSE IF ~AllHave(listing.stdout, {"metadata.name", "spec.replicas"}) THEN Raise
    ELSE Return([i \in 1..Len(listing.stdout) |-> WorkloadRecord(type, listing.stdout[i])])

get_deployments_info(deployments) == get_workloads_info("Deployment", deployments)

get_deploymentconfigs_info(dcs) == get_workloads_info("DeploymentConfig", dcs)

get_statefulsets_info(statefulsets) == get_workloads_info("StatefulSet", statefulsets)

ServiceRecord(service) ==
    [name |-> service["metadata.name"],
     type |-> service["spec.type"],
     ports |-> Join(s_comma, Get(service, "spec.ports", << >>))]

get_services_info(services) ==
    IF services.none THEN Return(<< >>)
    ELSE IF ~AllHave(services.stdout, {"metadata.name", "spec.type"}) THEN Raise
    ELSE Return([i \in 1..Len(services.stdout) |-> ServiceRecord(services.stdout[i])])

RouteRecord(route) == [name |-> route["metadata.name"], host |-> route["spec.host"]]

get_routes_info(routes) ==
    IF routes.none THEN Return(<< >>)
    ELSE IF ~AllHave(routes.stdout, {"metadata.name", "spec.host"}) THEN Raise
    ELSE Return([i \in 1..Len(routes.stdout) |-> RouteRecord(routes.stdout[i])])

HpaRecord(hpa) ==
    [name |-> hpa["metadata.name"],
     min_replicas |-> Get(hpa, "spec.minReplicas", 1),
     max_replicas |-> hpa["spec.maxReplicas"],
     current_cpu_utilization |-> Get(hpa, "status.currentCPUUtilizationPercentage", s_NA)]

get_hpa_info(hpas) ==
    IF hpas.none THEN Return(<< >>)
    ELSE IF ~AllHave(hpas.stdout, {"metadata.name", "spec.maxReplicas", "status"}) THEN Raise
    ELSE Return([i \in 1..Len(hpas.stdout) |-> HpaRecord(hpas.stdout[i])])

(* --------------------- what the cluster can answer --------------------- *)
Bounded(listings) == {l \in listings : Len(l) <= MaxItems}

Workload(name) == ("metadata.name" :> name) @@ ("spec.replicas" :> "2")

Pod(name) ==
    ("metadata.name" :> name) @@ ("spec.nodeName" :> s_n1)
    @@ ("spec.containers[0].image" :> s_img)

PodWithoutImage(name) == ("metadata.name" :> name) @@ ("spec.nodeName" :> s_n1)

Named(name) == ("metadata.name" :> name)

Secret(name) == ("metadata.name" :> name) @@ ("type" :> s_opaque)

Claim(name) ==
    ("metadata.name" :> name) @@ ("spec" :> s_braces) @@ ("status" :> s_braces)
    @@ ("spec.volumeName" :> s_pv_data) @@ ("status.accessModes" :> s_rwo)
    @@ ("status.capacity.storage" :> s_1Gi)

\* a claim that is still Pending has no status
ClaimWithoutStatus(name) == ("metadata.name" :> name) @@ ("spec" :> s_braces)

Volume(name, ns) ==
    ("metadata.name" :> name) @@ ("spec.claimRef.namespace" :> ns)
    @@ ("spec.capacity.storage" :> s_1Gi) @@ ("spec.accessModes" :> s_rwo)
    @@ ("spec.persistentVolumeReclaimPolicy" :> s_retain)

NamespacePool ==
    {s_payments, s_apps, s_default, s_defaults, s_kube_system,
     s_openshift_monitoring, s_hostpath_provisioner}

\* namespace names are unique in a cluster
NamespaceListings ==
    UNION {{l \in [1..n -> NamespacePool] : \A i, j \in 1..n : i # j => l[i] # l[j]}
           : n \in 0..MaxNamespaces}

\* The clusters of the model: payments is the busy namespace, apps holds at most one
\* Deployment and application secrets.
Busy(ns) == ns = s_payments

DeploymentListings(ns) ==
    IF Busy(ns)
    THEN Bounded({<< >>, <<Workload(s_db), Workload(s_api)>>})
    ELSE Bounded({<< >>, <<Workload(s_api)>>})

DeploymentConfigListings(ns) ==
    IF Busy(ns) THEN Bounded({<< >>, <<Workload(s_web)>>}) ELSE {<< >>}

StatefulSetListings(ns) ==
    IF Busy(ns) THEN Bounded({<< >>, <<Workload(s_db)>>}) ELSE {<< >>}

PodListings(ns) ==
    IF Busy(ns)
    THEN Bounded({<<Pod(s_api_1), Pod(s_api_db_0)>>,
                  <<PodWithoutImage(s_api_db_0), Pod(s_api_1)>>})
    ELSE {<< >>}

MetricsListings(ns) ==
    IF Busy(ns) THEN Bounded({<< >>, <<<<s_api_1, s_5m, s_20Mi>>>>}) ELSE {<< >>}

ServiceListings(ns) ==
    IF Busy(ns)
    THEN Bounded({<<Named(s_api_svc) @@ ("spec.type" :> "ClusterIP")
                    @@ ("spec.ports" :> <<s_80>>)>>})
    ELSE {<< >>}

RouteListings(ns) ==
    IF Busy(ns)
    THEN Bounded({<<Named(s_api_route) @@ ("spec.host" :> s_api_host)>>})
    ELSE {<< >>}

HpaListings(ns) ==
    IF Busy(ns)
    THEN Bounded({<<Named(s_api_hpa) @@ ("spec.maxReplicas" :> "3")
                    @@ ("status" :> s_braces)>>})
    ELSE {<< >>}

QuotaListings(ns) ==
    IF Busy(ns)
    THEN Bounded({<< >>, <<Named(s_compute) @@ ("spec.hard" :> s_braces)>>})
    ELSE {<< >>}

PvListings == Bounded({<<Volume(s_pv_data, s_payments)>>})

PvcListings(ns) ==
    IF Busy(ns)
    THEN Bounded({<< >>, <<ClaimWithoutStatus(s_db), Claim(s_data)>>,
                  <<("spec" :> s_braces), Claim(s_data)>>})
    ELSE {<< >>}

SecretListings(ns) ==
    IF Busy(ns)
    THEN Bounded({<< >>, <<Secret(s_builder_token), Secret(s_app_db_creds)>>,
                  <<Secret(s_app_db_creds), Secret(s_api_creds)>>,
                  <<Secret(s_builder_token), Secret(s_api_creds), Secret(s_app_db_creds)>>})
    ELSE Bounded({<< >>, <<Secret(s_app_db_creds), Secret(s_api_creds)>>})

ConfigmapListings(ns) ==
    IF Busy(ns) THEN Bounded({<<Named(s_app_config), Named(s_kube_root_ca)>>}) ELSE {<< >>}

\* `kubectl get namespace NAME -o json` returns one object, with or without the annotation
NamespaceInfos(ns) ==
    IF Busy(ns)
    THEN {Named(ns), Named(ns) @@ ("metadata.annotations.openshift.io/node-selector" :> s_zone_a)}
    ELSE {Named(ns)}

(* ------------------------------ state --------------------------------- *)
VARIABLES
    pc,                 \* where the script is
    raised_at,          \* the step at which an uncaught exception ended the run, or "nowhere"
    exit_status,        \* of the process, once it ended
    inventory,          \* generate_inventory's list of rows
    pv_info,
    all_namespaces,     \* get_non_openshift_namespaces' run_command output
    non_excluded_namespaces,
    namespaces,
    ns_idx,             \* the for loop: namespace = namespaces[ns_idx]
    info,               \* the *_info locals of the loop body
    dep_idx,            \* the inner for loop: deployment = all_deployments_info[dep_idx]
    csv_file,
    json_file,
    issued,             \* history: the <<namespace, kind>> queries issued so far
    failures,           \* history: how many commands ended with a non-zero return code
    auth_rejected,      \* history: one of them because the session was rejected
    workload_query_failed, \* history: a workload listing failed in this turn of the loop
    queried_after_auth, \* history: a query was issued after the session had been rejected
    listed_secrets      \* history: <<namespace, listing>> of every secret listing returned

vars ==
    <<pc, raised_at, exit_status, inventory, pv_info, all_namespaces,
      non_excluded_namespaces, namespaces, ns_idx, info,
      dep_idx, csv_file, json_file, issued, failures, auth_rejected,
      workload_query_failed, queried_after_auth, listed_secrets>>

NoInfo ==
    [deployments_info |-> << >>, dcs_info |-> << >>, statefulsets_info |-> << >>,
     pod_info |-> << >>, pod_metrics |-> EmptyDict, services_info |-> << >>,
     routes_info |-> << >>, hpa_info |-> << >>, pvc_info |-> << >>, secret_info |-> << >>,
     configmap_info |-> << >>]

NoFile == [exists |-> FALSE, header |-> << >>, rows |-> << >>]

\* the cluster-scoped queries carry no namespace
cluster_scope == << >>

namespace == IF ns_idx \in 1..Len(namespaces) THEN namespaces[ns_idx] ELSE cluster_scope

all_deployments_info == info.deployments_info \o info.dcs_info \o info.statefulsets_info

Init ==
    /\ pc = "login"
    /\ raised_at = "nowhere"
    /\ exit_status = "running"
    /\ inventory = << >>
    /\ pv_info = << >>
    /\ all_namespaces = None
    /\ non_excluded_namespaces = << >>
    /\ namespaces = << >>
    /\ ns_idx = 0
    /\ info = NoInfo
    /\ dep_idx = 0
    /\ csv_file = NoFile
    /\ json_file = NoFile
    /\ issued = {}
    /\ failures = 0
    /\ auth_rejected = FALSE
    /\ workload_query_failed = FALSE
    /\ queried_after_auth = FALSE
    /\ listed_secrets = {}

WorkloadKinds == {"deployments", "deploymentconfig", "statefulsets"}

\* the bookkeeping of one command: which query it was and how it ended; the query of
\* the namespace object is the last of a turn of the loop
Issue(kind, result) ==
    /\ result.returncode # 0 => failures < MaxFailures
    /\ issued' = issued \cup {<<namespace, kind>>}
    /\ failures' = IF result.returncode # 0 THEN failures + 1 ELSE failures
    /\ auth_rejected' = (auth_rejected \/ result.err = "auth")
    /\ workload_query_failed' =
           IF kind = "namespace" THEN FALSE
           ELSE workload_query_failed \/ (result.returncode # 0 /\ kind \in WorkloadKinds)
    /\ queried_after_auth' = (queried_after_auth \/ auth_rejected)

\* an exception nobody catches: the interpreter prints the traceback and exits with 1
Uncaught ==
    /\ pc' = "crashed"
    /\ raised_at' = pc
    /\ exit_status' = 1

\* the head of `for namespace in namespaces`
LoopHead(nss, i) == IF i <= Len(nss) THEN "get_deployments" ELSE "write_csv"

(* ------------------------------ steps --------------------------------- *)
\* exit(1) when the command failed
Login ==
    /\ pc = "login"
    /\ \E result \in Outcomes({<< >>}) :
         /\ Issue("login", result)
         /\ IF run_command(result).none
            THEN pc' = "exited" /\ exit_status' = 1
            ELSE pc' = "get_pv" /\ UNCHANGED exit_status
    /\ UNCHANGED <<raised_at, inventory, pv_info, all_namespaces, non_excluded_namespaces,
                   namespaces, ns_idx, info, dep_idx, csv_file, json_file, listed_secrets>>

GetPersistentVolumes ==
    /\ pc = "get_pv"
    /\ \E result \in Outcomes(PvListings) :
         /\ Issue("pv", result)
         /\ LET r == get_persistent_volumes(run_command(result)) IN
              IF r.raised THEN Uncaught /\ UNCHANGED pv_info
              ELSE /\ pv_info' = r.value
                   /\ pc' = "list_namespaces"
                   /\ UNCHANGED <<raised_at, exit_status>>
    /\ UNCHANGED <<inventory, all_namespaces, non_excluded_namespaces, namespaces, ns_idx,
                   info, dep_idx, csv_file, json_file, listed_secrets>>

\* get_non_openshift_namespaces: the command; None returns [] at once
ListNamespaces ==
    /\ pc = "list_namespaces"
    /\ \E result \in Outcomes(NamespaceListings) :
         /\ Issue("namespaces", result)
         /\ all_namespaces' = run_command(result)
         /\ pc' = IF run_command(result).none THEN "return_namespaces"
                  ELSE "filter_namespaces"
    /\ UNCHANGED <<raised_at, exit_status, inventory, pv_info, non_excluded_namespaces,
                   namespaces, ns_idx, info, dep_idx, csv_file, json_file, listed_secrets>>

\* get_non_openshift_namespaces: the list comprehension
FilterNamespaces ==
    /\ pc = "filter_namespaces"
    /\ non_excluded_namespaces' = NonExcluded(all_namespaces.stdout)
    /\ pc' = "return_namespaces"
    /\ UNCHANGED <<raised_at, exit_status, inventory, pv_info, all_namespaces, namespaces,
                   ns_idx, info, dep_idx, csv_file, json_file, issued, failures, auth_rejected,
                   workload_query_failed,
                   queried_after_auth, listed_secrets>>

\* get_non_openshift_namespaces returns, its locals end, and the loop begins
ReturnNamespaces ==
    /\ pc = "return_namespaces"
    /\ namespaces' = non_excluded_namespaces
    /\ all_namespaces' = None
    /\ non_excluded_namespaces' = << >>
    /\ ns_idx' = 1
    /\ pc' = LoopHead(namespaces', 1)
    /\ UNCHANGED <<raised_at, exit_status, inventory, pv_info, info, dep_idx, csv_file,
                   json_file, issued, failures, auth_rejected,
                   workload_query_failed, queried_after_auth,
                   listed_secrets>>

\* the get_* function that serves each kind of the loop body
get_info(kind, out) ==
    CASE kind = "deployments" -> get_deployments_info(out)
      [] kind = "deploymentconfig" -> get_deploymentconfigs_info(out)
      [] kind = "statefulsets" -> get_statefulsets_info(out)
      [] kind = "pods" -> get_pod_info(out)
      [] kind = "top-pod" -> get_pod_metrics(out)
      [] kind = "services" -> get_services_info(out)
      [] kind = "routes" -> get_routes_info(out)
      [] kind = "hpa" -> get_hpa_info(out)
      [] kind = "pvc" -> get_persistent_volume_claims(out)
      [] kind = "secret" -> get_secrets(out)
      [] kind = "configmap" -> get_configmaps(out)

\* one `x_info = get_x(namespace)` line of the loop body
Collect(here, next, kind, listings, local) ==
    /\ pc = here
    /\ \E result \in Outcomes(listings) :
         /\ Issue(kind, result)
         /\ LET r == get_info(kind, run_command(result)) IN
              IF r.raised THEN Uncaught /\ UNCHANGED info
              ELSE /\ info' = [info EXCEPT ![local] = r.value]
                   /\ pc' = next
                   /\ UNCHANGED <<raised_at, exit_status>>
         /\ listed_secrets' = IF kind = "secret" /\ result.returncode = 0
                              THEN listed_secrets \cup {<<namespace, result.stdout>>}
                              ELSE listed_secrets
    /\ UNCHANGED <<inventory, pv_info, all_namespaces, non_excluded_namespaces, namespaces,
                   ns_idx, dep_idx, csv_file, json_file>>

GetDeployments ==
    Collect("get_deployments", "get_dcs", "deployments", DeploymentListings(namespace),
            "deployments_info")

GetDeploymentConfigs ==
    Collect("get_dcs", "get_statefulsets", "deploymentconfig",
            DeploymentConfigListings(namespace), "dcs_info")

GetStatefulSets ==
    Collect("get_statefulsets", "get_pods", "statefulsets", StatefulSetListings(namespace),
            "statefulsets_info")

GetPodInfo == Collect("get_pods", "get_metrics", "pods", PodListings(namespace), "pod_info")

GetPodMetrics ==
    Collect("get_metrics", "get_services", "top-pod", MetricsListings(namespace),
            "pod_metrics")

GetServices ==
    Collect("get_services", "get_routes", "services", ServiceListings(namespace),
            "services_info")

GetRoutes == Collect("get_routes", "get_hpa", "routes", RouteListings(namespace), "routes_info")

GetHpa == Collect("get_hpa", "get_pvc", "hpa", HpaListings(namespace), "hpa_info")

GetPersistentVolumeClaims ==
    Collect("get_pvc", "get_secrets", "pvc", PvcListings(namespace), "pvc_info")

GetSecrets ==
    Collect("get_secrets", "get_configmaps", "secret", SecretListings(namespace),
            "secret_info")

GetConfigmaps ==
    Collect("get_configmaps", "correlate", "configmap", ConfigmapListings(namespace),
            "configmap_info")

(* ---------------------------- correlation ----------------------------- *)
RelevantPodsByPrefix(deployment_name) ==
    SelectSeq(info.pod_info, LAMBDA pod : StartsWith(pod.pod_name, deployment_name))

relevant_pods(deployment_name) ==
    SelectSeq(info.pod_info, LAMBDA pod : Contains(deployment_name, pod.pod_name))

UsageOf(pod, what) ==
    IF pod.pod_name \in DOMAIN info.pod_metrics
    THEN info.pod_metrics[pod.pod_name][what]
    ELSE s_NA

PodUsages(pods, what) == [i \in 1..Len(pods) |-> UsageOf(pods[i], what)]

\* the row of one workload; node_names and pod_images are joined from a set, in
\* whichever order the set yields them
WorkloadRows(deployment) ==
    LET pods == relevant_pods(deployment.deployment_name) IN
    {[namespace |-> namespace,
      deployment_name |-> deployment.deployment_name,
      deployment_type |-> Get(deployment, "type", "Deployment"),
      deployment_replicas |-> deployment.replicas,
      deployment_labels |-> deployment.labels,
      node_names |-> Join(s_comma, nodes),
      pod_images |-> Join(s_comma, images),
      pod_resources |-> Join(s_comma, Column(pods, "resources")),
      pod_cpu_usages |-> Join(s_comma, PodUsages(pods, "cpu")),
      pod_memory_usages |-> Join(s_comma, PodUsages(pods, "memory")),
      services |-> Join(s_comma, Column(info.services_info, "name")),
      service_ports |-> Join(s_comma, Column(info.services_info, "ports")),
      routes |-> Join(s_comma, Column(info.routes_info, "name")),
      route_hosts |-> Join(s_comma, Column(info.routes_info, "host")),
      hpas |-> Join(s_comma, Column(info.hpa_info, "name"))]
     : nodes \in SetOrders({pods[i].node_name : i \in 1..Len(pods)}),
       images \in SetOrders({pods[i].image : i \in 1..Len(pods)})}

\* one turn of `for deployment in all_deployments_info`
Correlate ==
    /\ pc = "correlate"
    /\ dep_idx < Len(all_deployments_info)
    /\ \E row \in WorkloadRows(all_deployments_info[dep_idx + 1]) :
         inventory' = Append(inventory, row)
    /\ dep_idx' = dep_idx + 1
    /\ UNCHANGED <<pc, raised_at, exit_status, pv_info, all_namespaces,
                   non_excluded_namespaces, namespaces, ns_idx, info, csv_file, json_file,
                   issued, failures, auth_rejected,
                   workload_query_failed, queried_after_auth, listed_secrets>>

(* ------------------------------ folding ------------------------------- *)
\* dict.update, once per element of updates
RECURSIVE UpdateAll(_, _)
UpdateAll(row, updates) ==
    IF Len(updates) = 0 THEN row ELSE UpdateAll(Head(updates) @@ row, Tail(updates))

\* inventory[-1].update(u) for every u of updates; inventory[-1] of an empty list
\* raises IndexError
UpdateLast(inv, updates) ==
    IF Len(updates) = 0 THEN Return(inv)
    ELSE IF Len(inv) = 0 THEN Raise
    ELSE Return([inv EXCEPT ![Len(inv)] = UpdateAll(@, updates)])

QuotaUpdate(quota) == [quota_name |-> quota.name, quota_limits |-> quota.limits]

PvUpdate(pv) ==
    [pv_name |-> pv.name, pv_capacity |-> pv.capacity, pv_access_modes |-> pv.access_modes,
     pv_reclaim_policy |-> pv.reclaim_policy]

PvcUpdate(pvc) ==
    [pvc_name |-> pvc.name, pvc_volume_name |-> pvc.volume_name,
     pvc_access_modes |-> pvc.access_modes, pvc_capacity |-> pvc.capacity]

SecretUpdate(secret) == [secret_name |-> secret.name, secret_type |-> secret.type]

ConfigmapUpdate(configmap) == [configmap_name |-> configmap.name]

\* the inner loop is over; `for quota in get_resource_quotas(namespace)`
FoldQuotas ==
    /\ pc = "correlate"
    /\ dep_idx = Len(all_deployments_info)
    /\ \E result \in Outcomes(QuotaListings(namespace)) :
         /\ Issue("resourcequota", result)
         /\ LET quotas == get_resource_quotas(run_command(result))
                r == IF quotas.raised THEN Raise
                     ELSE UpdateLast(inventory,
                                     [i \in 1..Len(quotas.value) |->
                                          QuotaUpdate(quotas.value[i])])
            IN IF r.raised THEN Uncaught /\ UNCHANGED inventory
               ELSE /\ inventory' = r.value
                    /\ pc' = "fold_siblings"
                    /\ UNCHANGED <<raised_at, exit_status>>
    /\ UNCHANGED <<pv_info, all_namespaces, non_excluded_namespaces, namespaces, ns_idx, info,
                   dep_idx, csv_file, json_file, listed_secrets>>

SiblingUpdates ==
    LET bound == SelectSeq(pv_info, LAMBDA pv : pv.namespace = namespace)
    IN [i \in 1..Len(bound) |-> PvUpdate(bound[i])]
    \o [i \in 1..Len(info.pvc_info) |-> PvcUpdate(info.pvc_info[i])]
    \o [i \in 1..Len(info.secret_info) |-> SecretUpdate(info.secret_info[i])]
    \o [i \in 1..Len(info.configmap_info) |-> ConfigmapUpdate(info.configmap_info[i])]

\* the four loops over pv_info, pvc_info, secret_info and configmap_info
FoldSiblings ==
    /\ pc = "fold_siblings"
    /\ LET r == UpdateLast(inventory, SiblingUpdates) IN
         IF r.raised THEN Uncaught /\ UNCHANGED inventory
         ELSE /\ inventory' = r.value
              /\ pc' = "fold_node_selector"
              /\ UNCHANGED <<raised_at, exit_status>>
    /\ UNCHANGED <<pv_info, all_namespaces, non_excluded_namespaces, namespaces, ns_idx, info,
                   dep_idx, csv_file, json_file, issued, failures, auth_rejected,
                   workload_query_failed,
                   queried_after_auth, listed_secrets>>

\* the last statement of the loop body; the *_info locals are rebound by the next
\* turn before anything reads them
FoldNodeSelector ==
    /\ pc = "fold_node_selector"
    /\ \E result \in Outcomes({<<i>> : i \in NamespaceInfos(namespace)}) :
         /\ Issue("namespace", result)
         /\ LET out == run_command(result)
                node_selector ==
                    get_node_selector(IF out.none THEN None
                                      ELSE [none |-> FALSE, stdout |-> out.stdout[1]])
                r == IF node_selector # s_NA
                     THEN UpdateLast(inventory, <<[node_selector |-> node_selector]>>)
                     ELSE Return(inventory)
            IN IF r.raised
               THEN Uncaught /\ UNCHANGED <<inventory, ns_idx, info, dep_idx>>
               ELSE /\ inventory' = r.value
                    /\ ns_idx' = ns_idx + 1
                    /\ info' = NoInfo
                    /\ dep_idx' = 0
                    /\ pc' = LoopHead(namespaces, ns_idx + 1)
                    /\ UNCHANGED <<raised_at, exit_status>>
    /\ UNCHANGED <<pv_info, all_namespaces, non_excluded_namespaces, namespaces, csv_file,
                   json_file, listed_secrets>>

(* ------------------------------ report -------------------------------- *)
fieldnames ==
    <<"namespace", "deployment_name", "deployment_type", "deployment_replicas",
      "deployment_labels", "node_names", "pod_images", "pod_resources", "pod_cpu_usages",
      "pod_memory_usages", "services", "service_ports", "routes", "route_hosts", "hpas",
      "quota_name", "quota_limits", "pv_name", "pv_capacity", "pv_access_modes",
      "pv_reclaim_policy", "pvc_name", "pvc_volume_name", "pvc_access_modes", "pvc_capacity",
      "secret_name", "secret_type", "configmap_name", "node_selector">>

\* DictWriter.writerow: a key outside fieldnames raises ValueError, a missing key is
\* written as the empty string
CsvRow(entry) == [i \in 1..Len(fieldnames) |-> Get(entry, fieldnames[i], s_empty)]

\* open() creates the file before the first row is written
WriteCsv ==
    /\ pc = "write_csv"
    /\ IF \E i \in 1..Len(inventory) : ~(DOMAIN inventory[i] \subseteq Range(fieldnames))
       THEN /\ Uncaught
            /\ csv_file' = [exists |-> TRUE, header |-> fieldnames, rows |-> << >>]
       ELSE /\ csv_file' = [exists |-> TRUE, header |-> fieldnames,
                            rows |-> [i \in 1..Len(inventory) |-> CsvRow(inventory[i])]]
            /\ pc' = "write_json"
            /\ UNCHANGED <<raised_at, exit_status>>
    /\ UNCHANGED <<inventory, pv_info, all_namespaces, non_excluded_namespaces, namespaces,
                   ns_idx, info, dep_idx, json_file, issued, failures, auth_rejected,
                   workload_query_failed,
                   queried_after_auth, listed_secrets>>

\* json.dump(inventory): the rows as they are; the script ends and the exit status is 0
WriteJson ==
    /\ pc = "write_json"
    /\ json_file' = [exists |-> TRUE, header |-> << >>, rows |-> inventory]
    /\ pc' = "done"
    /\ exit_status' = 0
    /\ UNCHANGED <<raised_at, inventory, pv_info, all_namespaces, non_excluded_namespaces,
                   namespaces, ns_idx, info, dep_idx, csv_file, issued, failures,
                   auth_rejected,
                   workload_query_failed, queried_after_auth, listed_secrets>>

Next ==
    \/ Login
    \/ GetPersistentVolumes
    \/ ListNamespaces
    \/ FilterNamespaces
    \/ ReturnNamespaces
    \/ GetDeployments
    \/ GetDeploymentConfigs
    \/ GetStatefulSets
    \/ GetPodInfo
    \/ GetPodMetrics
    \/ GetServices
    \/ GetRoutes
    \/ GetHpa
    \/ GetPersistentVolumeClaims
    \/ GetSecrets
    \/ GetConfigmaps
    \/ Correlate
    \/ FoldQuotas
    \/ FoldSiblings
    \/ FoldNodeSelector
    \/ WriteCsv
    \/ WriteJson

Spec == Init /\ [][Next]_vars

(* ============================ properties ============================== *)
CollectSteps ==
    {"get_pv", "get_deployments", "get_dcs", "get_statefulsets", "get_pods", "get_metrics",
     "get_services", "get_routes", "get_hpa", "get_pvc", "get_secrets", "get_configmaps"}

FoldSteps == {"correlate", "fold_siblings", "fold_node_selector"}

Ended == pc \in {"done", "exited", "crashed"}

\* the rows of the JSON report
Written == json_file.rows

\* C1, for the workload kinds: a workload query that fails with a transport error
\* is an empty result and the run goes on to write the report: no exception ends
\* the run while the resources of that namespace are folded into the rows.
C1_TransportFailureDoesNotAbort ==
    (workload_query_failed /\ ~auth_rejected /\ pc = "crashed") => raised_at \notin FoldSteps

\* authentication was rejected: the login failed, or a later query was refused
Rejected == pc = "exited" \/ auth_rejected

\* C2: once authentication is rejected no further query is issued and no report
\* file is written, and a run that ended has a non-zero exit status exactly when
\* authentication was rejected.
C2_AuthRejectionAbortsOnly ==
    /\ ~queried_after_auth
    /\ Rejected => (~csv_file.exists /\ ~json_file.exists)
    /\ Ended => (exit_status # 0 <=> Rejected)

\* C3: when the rows are handed to the CSV and JSON writers every row has exactly
\* the keys of the column list.
C3_RowsHaveAllColumns ==
    pc \in {"write_csv", "write_json", "done"} =>
        \A i \in 1..Len(inventory) : DOMAIN inventory[i] = Range(fieldnames)

\* C4: of every secret listing a namespace returned, a secret named builder...,
\* default... or deployer... is in no row of the report, and every other secret is
\* the secret_name of some row.
C4_SecretsExcludedOrReported ==
    pc = "done" =>
        \A l \in listed_secrets : \A i \in 1..Len(l[2]) :
            LET name == l[2][i]["metadata.name"]
                ignored == \E p \in {s_builder, s_default, s_deployer} :
                               Len(p) <= Len(name) /\ SubSeq(name, 1, Len(p)) = p
                reported == \E r \in 1..Len(Written) :
                               "secret_name" \in DOMAIN Written[r]
                               /\ Written[r]["secret_name"] = name
            IN IF ignored THEN ~reported ELSE reported

\* the names a row of namespace ns carries under key
CarriedBy(ns, key) ==
    {inventory[r][key] : r \in {q \in 1..Len(inventory) :
                                   inventory[q].namespace = ns /\ key \in DOMAIN inventory[q]}}

\* C5: a namespace whose three workload listings came back empty is processed
\* without an exception, and once its siblings are folded its claims, secrets and
\* configmaps are carried by rows of that namespace.
C5_NoWorkloadsStillReported ==
    (failures = 0 /\ ns_idx \in 1..Len(namespaces) /\ Len(all_deployments_info) = 0) =>
        /\ pc = "crashed" => raised_at \notin FoldSteps
        /\ pc = "fold_node_selector" =>
             /\ \A i \in 1..Len(info.pvc_info) :
                  info.pvc_info[i].name \in CarriedBy(namespace, "pvc_name")
             /\ \A i \in 1..Len(info.secret_info) :
                  info.secret_info[i].name \in CarriedBy(namespace, "secret_name")
             /\ \A i \in 1..Len(info.configmap_info) :
                  info.configmap_info[i].name \in CarriedBy(namespace, "configmap_name")

\* the characters of the model's strings, in code point order
CodePointOrder ==
    <<"-", ".", "/", "0", "1", "2", "3", "5", "7", "8", ":", "=", "A", "G", "M", "N", "O", "R",
      "W", "a", "b", "c", "d", "e", "f", "g", "h", "i", "k", "l", "m", "n", "o", "p", "q", "r",
      "s", "t", "u", "v", "w", "y", "z", "{", "}", ",">>

CodePoint(c) == CHOOSE i \in 1..Len(CodePointOrder) : CodePointOrder[i] = c

\* a <= b as Python compares two strings
RECURSIVE StrLeq(_, _)
StrLeq(a, b) ==
    IF Len(a) = 0 THEN TRUE
    ELSE IF Len(b) = 0 THEN FALSE
    ELSE IF Head(a) = Head(b) THEN StrLeq(Tail(a), Tail(b))
    ELSE CodePoint(Head(a)) < CodePoint(Head(b))

KindRank(kind) ==
    CASE kind = "Deployment" -> 1 [] kind = "DeploymentConfig" -> 2 [] kind = "StatefulSet" -> 3

RowLeq(a, b) ==
    IF a.namespace # b.namespace THEN StrLeq(a.namespace, b.namespace)
    ELSE IF a.deployment_type # b.deployment_type
         THEN KindRank(a.deployment_type) < KindRank(b.deployment_type)
    ELSE StrLeq(a.deployment_name, b.deployment_name)

\* C6: the rows of the report are sorted by namespace, then workload kind, then
\* workload name.
C6_ReportIsSorted ==
    pc = "done" => \A i, j \in 1..Len(Written) : i < j => RowLeq(Written[i], Written[j])

HasPrefix(name, p) == Len(p) <= Len(name) /\ SubSeq(name, 1, Len(p)) = p

\* C7 as stated: a listed namespace is eligible exactly when its name starts with
\* neither openshift- nor kube- and is neither default nor hostpath-provisioner.
C7_ExclusionByPrefixAndExactName ==
    (pc = "return_namespaces" /\ ~all_namespaces.none) =>
        \A n \in NamespacePool :
            n \in Range(non_excluded_namespaces) <=>
                /\ n \in Range(all_namespaces.stdout)
                /\ ~HasPrefix(n, s_openshift_dash)
                /\ ~HasPrefix(n, s_kube_dash)
                /\ n # s_default
                /\ n # s_hostpath_provisioner

\* C7 amended: a listed namespace is eligible exactly when its name starts with
\* none of openshift-, kube-, default and hostpath-provisioner.
C7_ExclusionByPrefix ==
    (pc = "return_namespaces" /\ ~all_namespaces.none) =>
        \A n \in NamespacePool :
            n \in Range(non_excluded_namespaces) <=>
                /\ n \in Range(all_namespaces.stdout)
                /\ \A p \in {s_openshift_dash, s_kube_dash, s_default, s_hostpath_provisioner} :
                     ~HasPrefix(n, p)

\* the listing of the example: only payments is eligible
C7_Witness ==
    /\ pc = "return_namespaces"
    /\ ~all_namespaces.none
    /\ Range(all_namespaces.stdout) =
           {s_openshift_monitoring, s_kube_system, s_default, s_payments,
            s_hostpath_provisioner}
    /\ non_excluded_namespaces = <<s_payments>>

\* C8: a record that lacks an expected field ends no run: no get_* function raises.
C8_MalformedRecordDoesNotAbort == raised_at \notin CollectSteps

\* C9: folding the siblings of a namespace leaves every row but the last workload
\* row of that namespace as it was; with no workload row of that namespace, every
\* row.
C9_FoldChangesOnlyLastRowOfNamespace ==
    [][(pc \in FoldSteps /\ Len(inventory') = Len(inventory)) =>
          \A i \in 1..Len(inventory) :
              (i < Len(inventory) \/ Len(all_deployments_info) = 0) =>
                  inventory'[i] = inventory[i]]_vars

\* str.split(','), and no entry at all for the empty string
RECURSIVE Fields(_)
Fields(str) ==
    IF \A k \in 1..Len(str) : str[k] # ","
    THEN <<str>>
    ELSE LET k == CHOOSE c \in 1..Len(str) :
                      str[c] = "," /\ \A b \in 1..(c - 1) : str[b] # ","
         IN <<SubSeq(str, 1, k - 1)>> \o Fields(SubSeq(str, k + 1, Len(str)))

Entries(str) == IF Len(str) = 0 THEN << >> ELSE Fields(str)

\* the positions, in listing order, of the pods whose name contains name
PodsNamedWith(name) ==
    SelectSeq([i \in 1..Len(info.pod_info) |-> i],
              LAMBDA i : \E k \in 1..Len(info.pod_info[i].pod_name) :
                  /\ k + Len(name) - 1 <= Len(info.pod_info[i].pod_name)
                  /\ \A c \in 1..Len(name) : info.pod_info[i].pod_name[k + c - 1] = name[c])

Measured(pod_name, what) ==
    IF pod_name \in DOMAIN info.pod_metrics THEN info.pod_metrics[pod_name][what] ELSE s_NA

\* the row appended for the d-th workload of the namespace being correlated
RowOf(d) == inventory[Len(inventory) - dep_idx + d]

\* C10: the CPU and memory usage lists of a workload's row have one entry for each
\* pod of the namespace whose name contains the workload's name, and for no other
\* pod, in pod listing order.
C10_UsagesFollowSubstringMatch ==
    pc = "correlate" =>
        \A d \in 1..dep_idx :
            LET pods == PodsNamedWith(all_deployments_info[d].deployment_name)
                cpu == Entries(RowOf(d).pod_cpu_usages)
                memory == Entries(RowOf(d).pod_memory_usages)
            IN /\ RowOf(d).deployment_name = all_deployments_info[d].deployment_name
               /\ Len(cpu) = Len(pods)
               /\ Len(memory) = Len(pods)
               /\ \A k \in 1..Len(pods) :
                    /\ cpu[k] = Measured(info.pod_info[pods[k]].pod_name, "cpu")
                    /\ memory[k] = Measured(info.pod_info[pods[k]].pod_name, "memory")

\* api-db-0 is counted for db and for api; api-1 for api alone
C10_Witness ==
    /\ pc = "correlate"
    /\ dep_idx = 2
    /\ Column(info.pod_info, "pod_name") = <<s_api_1, s_api_db_0>>
    /\ RowOf(1).deployment_name = s_db
    /\ RowOf(1).pod_cpu_usages = s_NA
    /\ RowOf(2).deployment_name = s_api
    /\ RowOf(2).pod_cpu_usages = s_5m \o s_comma \o s_NA
    /\ RowOf(2).pod_memory_usages = s_20Mi \o s_comma \o s_NA

====
